---- MODULE Spec2Model ----
(***************************************************************************)
(* Model of dashboard/views.py: the timestamp parser _parse_iso and the    *)
(* request handler index_view (configuration check, one outbound GET,      *)
(* normalisation, sort, aggregation, render).                              *)
(*                                                                         *)
(* A Python string is a sequence of tokens.  The first token of a          *)
(* timestamp may be a "head": the 19 characters YYYY-MM-DDTHH:MM:SS taken  *)
(* as one unit; every other token is one character.  Everything the code   *)
(* does after the seconds field (replace, split, pad, slice, the parse of  *)
(* the fraction and of the offset) is done character by character.         *)
(***************************************************************************)
EXTENDS Integers, Sequences, FiniteSets, TLC

\* ------------------------------------------------------------------ bounds
\* Largest number of entries of a generated 'data' mapping.
MaxEntries == 2
\* Number of entries of the one large 'data' mapping (the 25-record case).
BulkCount == 25

\* ------------------------------------------------------------- characters
Digits == {"0", "1", "2", "3", "4", "5", "6", "7", "8", "9"}

DigitVal(c) ==
    CASE c = "0" -> 0 [] c = "1" -> 1 [] c = "2" -> 2 [] c = "3" -> 3
      [] c = "4" -> 4 [] c = "5" -> 5 [] c = "6" -> 6 [] c = "7" -> 7
      [] c = "8" -> 8 [] c = "9" -> 9

H1 == "2024-01-01T10:00:00"
H2 == "2024-01-02T10:00:00"
Heads == {H1, H2}

\* The date and the second of the day a head denotes.
HeadDate(h) == IF h = H1 THEN "2024-01-01" ELSE "2024-01-02"
HeadSec(h) == 10 * 3600

\* Proleptic Gregorian ordinal of a date (date.toordinal()).
DateOrd(d) ==
    CASE d = "0001-01-01" -> 1
      [] d = "2024-01-01" -> 738886
      [] d = "2024-01-02" -> 738887

\* len(s) of a token string.
StrLen(s) ==
    19 * Cardinality({i \in 1..Len(s) : s[i] \in Heads})
      + Cardinality({i \in 1..Len(s) : s[i] \notin Heads})

\* ------------------------------------------------------------- datetimes
\* A datetime: calendar date, second of day, microsecond, and the offset in
\* minutes when it is timezone-aware.
DateTime(d, s, us, aw, off) ==
    [date |-> d, sec |-> s, micro |-> us, aware |-> aw, off |-> off]

\* datetime.min: 0001-01-01T00:00:00, naive.
datetime_min == DateTime("0001-01-01", 0, 0, FALSE, 0)

\* Datetimes of one kind are ordered by their local fields when naive and by
\* their UTC instant when aware: day, second of that day, microsecond.
UtcDay(dt) == DateOrd(dt.date) + ((dt.sec - dt.off * 60) \div 86400)
UtcSec(dt) == (dt.sec - dt.off * 60) % 86400

\* a > b for two datetimes of one kind.
DtGreater(a, b) ==
    \/ UtcDay(a) > UtcDay(b)
    \/ (UtcDay(a) = UtcDay(b) /\ UtcSec(a) > UtcSec(b))
    \/ (UtcDay(a) = UtcDay(b) /\ UtcSec(a) = UtcSec(b) /\ a.micro > b.micro)

\* ------------------------------------------- datetime.fromisoformat(string)
\* Number of consecutive digits of s from position p on.
DigitRun(s, p) ==
    CHOOSE n \in 0..(Len(s) - p + 1) :
        /\ \A i \in p..(p + n - 1) : s[i] \in Digits
        /\ (p + n > Len(s) \/ s[p + n] \notin Digits)

\* The first six digits of a fraction, right-padded with zeros, as a number.
Micro(s, p, n) ==
    LET d(i) == IF i <= n THEN DigitVal(s[p + i - 1]) ELSE 0
    IN  d(1) * 100000 + d(2) * 10000 + d(3) * 1000 + d(4) * 100 + d(5) * 10 + d(6)

\* An offset is a sign and HH:MM, six characters, or nothing.
OffsetOk(t) ==
    \/ t = <<>>
    \/ /\ Len(t) = 6
       /\ t[1] \in {"+", "-"}
       /\ t[2] \in Digits /\ t[3] \in Digits /\ t[4] = ":"
       /\ t[5] \in Digits /\ t[6] \in Digits
       /\ DigitVal(t[2]) * 10 + DigitVal(t[3]) < 24
       /\ DigitVal(t[5]) * 10 + DigitVal(t[6]) < 60

OffsetMinutes(t) ==
    IF t = <<>> THEN 0
    ELSE (IF t[1] = "-" THEN -1 ELSE 1)
           * ((DigitVal(t[2]) * 10 + DigitVal(t[3])) * 60
                + DigitVal(t[5]) * 10 + DigitVal(t[6]))

\* Python 3.7 to 3.10 accept a fraction of exactly 3 or 6 digits; Python 3.11
\* and later accept any positive number of digits and cut it after the sixth.
FractionOk(n, lenient) == IF lenient THEN n >= 1 ELSE n \in {3, 6}

\* fromisoformat: [ok |-> FALSE] stands for ValueError.
fromisoformat(s, lenient) ==
    IF Len(s) = 0 \/ s[1] \notin Heads
    THEN [ok |-> FALSE, dt |-> datetime_min]
    ELSE LET hasFrac == Len(s) >= 2 /\ s[2] = "."
             n == IF hasFrac THEN DigitRun(s, 3) ELSE 0
             tail == IF hasFrac THEN SubSeq(s, 3 + n, Len(s))
                     ELSE SubSeq(s, 2, Len(s))
         IN  IF (hasFrac => FractionOk(n, lenient)) /\ OffsetOk(tail)
             THEN [ok |-> TRUE,
                   dt |-> DateTime(HeadDate(s[1]), HeadSec(s[1]),
                                   IF hasFrac THEN Micro(s, 3, n) ELSE 0,
                                   tail # <<>>, OffsetMinutes(tail))]
             ELSE [ok |-> FALSE, dt |-> datetime_min]

\* ------------------------------------------------------------ _parse_iso
RECURSIVE ReplaceZ(_)
\* ts.replace("Z", "+00:00")
ReplaceZ(s) ==
    IF s = <<>> THEN <<>>
    ELSE (IF Head(s) = "Z" THEN <<"+", "0", "0", ":", "0", "0">> ELSE <<Head(s)>>)
           \o ReplaceZ(Tail(s))

Dots(s) == {i \in 1..Len(s) : s[i] = "."}

\* (frac + "000000")[:6]
PadCut(frac) == SubSeq(frac \o <<"0", "0", "0", "0", "0", "0">>, 1, 6)

\* The except branch of _parse_iso: split at the only dot, pad and cut the
\* part after it, parse again; any exception gives datetime.min.
ParseFallback(ts, lenient) ==
    IF Cardinality(Dots(ts)) # 1 THEN datetime_min
    ELSE LET p == CHOOSE i \in Dots(ts) : TRUE
             main == SubSeq(ts, 1, p - 1)
             frac == PadCut(SubSeq(ts, p + 1, Len(ts)))
             r == fromisoformat(main \o <<".">> \o frac, lenient)
         IN  IF r.ok THEN r.dt ELSE datetime_min

\* _parse_iso(ts) for ts None (isNone) or a string.
_parse_iso(isNone, ts, lenient) ==
    IF isNone \/ ts = <<>> THEN datetime_min
    ELSE LET z == ReplaceZ(ts)
             r == fromisoformat(z, lenient)
         IN  IF r.ok THEN r.dt ELSE ParseFallback(z, lenient)

\* ------------------------------------------------------ the input domain
\* A timestamp as it is meant: head, fraction digits, and zone ("none", "Z"
\* or a numeric offset).  RenderTs writes it as the string the API sends.
Stamp(h, f, z) == [head |-> h, frac |-> f, zone |-> z]

ZoneText(z) ==
    CASE z = "none" -> <<>>
      [] z = "Z" -> <<"Z">>
      [] z = "+05:30" -> <<"+", "0", "5", ":", "3", "0">>

RenderTs(w) ==
    <<w.head>> \o (IF w.frac = <<>> THEN <<>> ELSE <<".">> \o w.frac)
      \o ZoneText(w.zone)

WellFormedStamps ==
    { Stamp(H1, <<>>, "none"),
      Stamp(H1, <<>>, "Z"),
      Stamp(H2, <<"1">>, "Z"),
      Stamp(H2, <<"1">>, "none"),
      Stamp(H2, <<"1", "2", "3">>, "none"),
      Stamp(H1, <<"1", "2", "3", "4", "5", "6", "7">>, "+05:30") }

\* Strings that are no timestamp: empty, a word, a fraction with two dots.
MalformedStrings == { <<>>, <<"x">>, <<H1, ".", "1", ".", "2">> }

TsStrings == {RenderTs(w) : w \in WellFormedStamps} \cup MalformedStrings

\* The 'timestamp' field of a record: absent, null, or a string.
TsField(k, s) == [kind |-> k, s |-> s]
TsFields ==
    {TsField("absent", <<>>), TsField("null", <<>>)}
      \cup {TsField("str", s) : s \in TsStrings}

\* A value of the 'data' mapping: null, a non-mapping (a string), or a record
\* with an optional 'id' and an optional 'timestamp'.
Value(vk, hasId, id, ts) == [vkind |-> vk, hasId |-> hasId, id |-> id, ts |-> ts]
EntryValues ==
    {Value("null", FALSE, "", TsField("absent", <<>>)),
     Value("str", FALSE, "", TsField("absent", <<>>))}
      \cup {Value("map", FALSE, "", t) : t \in TsFields}
      \cup {Value("map", TRUE, "a", t) : t \in TsFields}

\* The parsed body.  shape: null, [] , a non-empty list, or a mapping; data:
\* the 'data' field of a mapping: absent, null, a non-mapping, or a mapping
\* whose values, in document order, are items (the i-th key is Key(i)).
Payload(sh, d, items) == [shape |-> sh, data |-> d, items |-> items]

Key(i) == ToString(i)

SeqsUpTo(S, n) == UNION {[1..m -> S] : m \in 0..n}

\* The records a, b, a of the worked example.
ExamplePayload ==
    Payload("map", "map",
        << Value("map", TRUE, "a", TsField("str", <<H1, "Z">>)),
           Value("map", TRUE, "b", TsField("str", <<H2, ".", "1", "Z">>)),
           Value("map", TRUE, "a", TsField("str", <<>>)) >>)

\* BulkCount records with timezone-less timestamps.
BulkPayload ==
    Payload("map", "map",
        [i \in 1..BulkCount |->
            Value("map", FALSE, "",
                  TsField("str", <<IF i % 2 = 0 THEN H1 ELSE H2>>))])

Payloads ==
    {Payload("null", "absent", <<>>), Payload("empty_list", "absent", <<>>),
     Payload("list", "absent", <<>>), Payload("map", "absent", <<>>),
     Payload("map", "null", <<>>), Payload("map", "list", <<>>)}
      \cup {Payload("map", "map", it) : it \in SeqsUpTo(EntryValues, MaxEntries)}
      \cup {ExamplePayload, BulkPayload}

\* What the GET meets: a transport failure, a 2xx body that is no JSON, or a
\* 2xx body that parses to a payload.
Response(k, p) == [kind |-> k, payload |-> p]
NoPayload == Payload("null", "absent", <<>>)
TransportFailures == {"connection_error", "timeout", "http_error"}
Responses ==
    {Response(k, NoPayload) : k \in TransportFailures \cup {"invalid_json"}}
      \cup {Response("ok", p) : p \in Payloads}

\* ------------------------------------------------------------------ state
VARIABLES
    api_url,        \* settings.API_URL: "absent", "blank" or "set"
    lenient,        \* the interpreter's fromisoformat takes any fraction width
    json_is_reqexc, \* the library's JSON error is a RequestException subclass
    pc,             \* position in index_view
    gets,           \* outbound GETs issued
    resp,           \* what the GET met
    exc,            \* exception in flight or escaped, "none" if none
    entries,        \* the normalised records
    renders,        \* calls of render
    context         \* the context of the render call

vars == <<api_url, lenient, json_is_reqexc, pc, gets, resp, exc, entries,
          renders, context>>

\* Python's None as a message; the messages are written without accents.
None == "None"

Context(msg, pcount, ucount, avg, items, labels, values) ==
    [error_message |-> msg, posts_count |-> pcount, users_count |-> ucount,
     average_title_length |-> avg, post_items |-> items,
     graph_labels |-> labels, graph_values |-> values]

\* The context of the three error renders: zero metrics, empty sequences.
ErrorContext(msg) == Context(msg, 0, 0, 0, <<>>, <<>>, <<>>)

NoResponse == Response("none", NoPayload)

Init ==
    /\ api_url \in {"absent", "blank", "set"}
    /\ lenient \in BOOLEAN
    /\ json_is_reqexc \in BOOLEAN
    /\ pc = "start"
    /\ gets = 0
    /\ resp = NoResponse
    /\ exc = "none"
    /\ entries = <<>>
    /\ renders = 0
    /\ context = ErrorContext(None)

\* getattr(settings, "API_URL", "").strip()
StrippedUrl == IF api_url = "set" THEN "url" ELSE ""

\* render(request, 'dashboard/index.html', context)
render(ctx) ==
    /\ context' = ctx
    /\ renders' = renders + 1
    /\ pc' = "done"

\* Lines 34-46: no URL, render the configuration error.
CheckConfig ==
    /\ pc = "start"
    /\ IF StrippedUrl = ""
       THEN /\ render(ErrorContext("API_URL no esta configurado en settings."))
            /\ UNCHANGED <<gets, resp, exc, entries>>
       ELSE /\ pc' = "get"
            /\ UNCHANGED <<gets, resp, exc, entries, renders, context>>
    /\ UNCHANGED <<api_url, lenient, json_is_reqexc>>

\* The exception the try block raises on a response, "none" on success.
Raised(r) ==
    CASE r.kind = "connection_error" -> "ConnectionError"
      [] r.kind = "timeout" -> "Timeout"
      [] r.kind = "http_error" -> "HTTPError"
      [] r.kind = "invalid_json" -> "JSONDecodeError"
      [] r.kind = "ok" -> "none"

\* A GET that is issued again after a failure, up to three times.
DoGetRetry ==
    /\ pc = "get"
    /\ \E r \in Responses :
         /\ resp' = r
         /\ exc' = Raised(r)
         /\ pc' = IF Raised(r) = "none" THEN "normalize"
                  ELSE IF gets < 2 THEN "get" ELSE "except"
    /\ gets' = gets + 1
    /\ UNCHANGED <<api_url, lenient, json_is_reqexc, entries, renders, context>>

\* Lines 48-51: requests.get, raise_for_status, resp.json().
DoGet ==
    /\ pc = "get"
    /\ \E r \in Responses :
         /\ resp' = r
         /\ exc' = Raised(r)
         /\ pc' = IF Raised(r) = "none" THEN "normalize" ELSE "except"
    /\ gets' = gets + 1
    /\ UNCHANGED <<api_url, lenient, json_is_reqexc, entries, renders, context>>

\* A first except clause that names only the connection-level errors.
IsRequestExceptionNarrow(e) == e \in {"ConnectionError", "Timeout"}

\* isinstance(e, requests.exceptions.RequestException)
IsRequestException(e) ==
    \/ e \in {"ConnectionError", "Timeout", "HTTPError"}
    \/ (e = "JSONDecodeError" /\ json_is_reqexc)

\* isinstance(e, ValueError)
IsValueError(e) == e = "JSONDecodeError"

\* Lines 52-64: the first except clause.
HandleRequestException ==
    /\ pc = "except"
    /\ IsRequestException(exc)
    /\ render(ErrorContext("Error al llamar a la API: " \o exc))
    /\ exc' = "none"
    /\ UNCHANGED <<api_url, lenient, json_is_reqexc, gets, resp, entries>>

\* Lines 65-76: the second except clause, tried when the first does not match.
HandleValueError ==
    /\ pc = "except"
    /\ ~IsRequestException(exc)
    /\ IsValueError(exc)
    /\ render(ErrorContext("La API devolvio un JSON invalido."))
    /\ exc' = "none"
    /\ UNCHANGED <<api_url, lenient, json_is_reqexc, gets, resp, entries>>

\* An exception leaves index_view.
Escape(e) ==
    /\ exc' = e
    /\ pc' = "raised"

\* A normalised record: {"id": k, **(v or {})}.
Entry(id, ts) == [id |-> id, ts |-> ts]
EntryOf(k, v) ==
    IF v.vkind = "null" THEN Entry(k, TsField("absent", <<>>))
    ELSE Entry(IF v.hasId THEN v.id ELSE k, v.ts)

\* Lines 78-83: (payload or {}).get("data", {}) or {}, then the list of records.
Normalize ==
    /\ pc = "normalize"
    /\ LET p == resp.payload
       IN  IF p.shape = "list" \/ (p.shape = "map" /\ p.data = "list")
           THEN Escape("AttributeError") /\ UNCHANGED entries
           ELSE IF p.shape = "map" /\ p.data = "map"
                   /\ \E i \in 1..Len(p.items) : p.items[i].vkind = "str"
           THEN Escape("TypeError") /\ UNCHANGED entries
           ELSE /\ entries' = IF p.shape = "map" /\ p.data = "map"
                              THEN [i \in 1..Len(p.items) |-> EntryOf(Key(i), p.items[i])]
                              ELSE <<>>
                /\ pc' = "sort"
                /\ UNCHANGED exc
    /\ UNCHANGED <<api_url, lenient, json_is_reqexc, gets, resp, renders, context>>

\* it["_dt"] = _parse_iso(it.get("timestamp"))
Dt(e) == _parse_iso(e.ts.kind # "str", e.ts.s, lenient)

\* list.sort(key=_dt, reverse=True): descending by key and stable.
SortDesc(s) ==
    LET n == Len(s)
        key(e) == Dt(e)
        before(j, i) == \/ DtGreater(key(s[j]), key(s[i]))
                        \/ (~DtGreater(key(s[i]), key(s[j])) /\ j < i)
        rank(i) == Cardinality({j \in 1..n : before(j, i)}) + 1
    IN  [r \in 1..n |-> s[CHOOSE i \in 1..n : rank(i) = r]]

\* Comparing an aware with a naive datetime raises TypeError; a sort of two or
\* more keys of both kinds makes such a comparison.
MixedKinds(s) ==
    \E i, j \in 1..Len(s) : Dt(s[i]).aware /\ ~Dt(s[j]).aware

\* Lines 85-90.
SortEntries ==
    /\ pc = "sort"
    /\ IF MixedKinds(entries)
       THEN Escape("TypeError") /\ UNCHANGED entries
       ELSE /\ entries' = SortDesc(entries)
            /\ pc' = "aggregate"
            /\ UNCHANGED exc
    /\ UNCHANGED <<api_url, lenient, json_is_reqexc, gets, resp, renders, context>>

\* Lines 94-97: userId <- id, title <- item.get("timestamp", "").
PostItem(e) ==
    [userId |-> e.id,
     title |-> IF e.ts.kind = "absent" THEN TsField("str", <<>>) ELSE e.ts]
PostItems(es) == [i \in 1..Len(es) |-> PostItem(es[i])]

\* Line 100.
UsersCount(items) == Cardinality({items[i].userId : i \in 1..Len(items)})

RECURSIVE SumLen(_)
SumLen(items) ==
    IF items = <<>> THEN 0 ELSE StrLen(Head(items).title.s) + SumLen(Tail(items))

\* Lines 102-106 in hundredths: round(sum / count, 2).  A tie needs a count
\* that is a multiple of 8.
AverageTitleLength(items) ==
    IF Len(items) = 0 THEN 0
    ELSE (200 * SumLen(items) + Len(items)) \div (2 * Len(items))

\* Line 112: the bucket of a record.
Bucket(e) ==
    IF e.ts.kind = "str" /\ e.ts.s # <<>> THEN Dt(e).date ELSE "sin_fecha"

\* Lines 109-113: by_date as a function on its keys.
ByDate(es) ==
    [d \in {Bucket(es[i]) : i \in 1..Len(es)} |->
        Cardinality({i \in 1..Len(es) : Bucket(es[i]) = d})]

\* The order of label strings: dates by their digits, "sin_fecha" after them.
LabelKey(l) == IF l = "sin_fecha" THEN DateOrd("2024-01-02") + 1 ELSE DateOrd(l)

\* The labels sorted with reverse=True.
GraphLabelsDescending(by_date) ==
    LET S == DOMAIN by_date
    IN  [r \in 1..Cardinality(S) |->
            CHOOSE l \in S : Cardinality({m \in S : LabelKey(m) > LabelKey(l)}) = r - 1]

\* Line 116: sorted(by_date.keys()).
GraphLabels(by_date) ==
    LET S == DOMAIN by_date
    IN  [r \in 1..Cardinality(S) |->
            CHOOSE l \in S : Cardinality({m \in S : LabelKey(m) < LabelKey(l)}) = r - 1]

\* Line 117.
GraphValues(by_date, labels) == [i \in 1..Len(labels) |-> by_date[labels[i]]]

\* Lines 94-129: map, count, average, histogram, render.  len(None) raises
\* TypeError when a title is null.
Aggregate ==
    /\ pc = "aggregate"
    /\ LET post_items == PostItems(entries)
           by_date == ByDate(entries)
           graph_labels == GraphLabels(by_date)
       IN  IF \E i \in 1..Len(post_items) : post_items[i].title.kind = "null"
           THEN Escape("TypeError") /\ UNCHANGED <<renders, context>>
           ELSE /\ render(Context(None, Len(post_items), UsersCount(post_items),
                                  AverageTitleLength(post_items), post_items,
                                  graph_labels, GraphValues(by_date, graph_labels)))
                /\ UNCHANGED exc
    /\ UNCHANGED <<api_url, lenient, json_is_reqexc, gets, resp, entries>>

Next ==
    \/ CheckConfig
    \/ DoGet
    \/ HandleRequestException
    \/ HandleValueError
    \/ Normalize
    \/ SortEntries
    \/ Aggregate

Spec == Init /\ [][Next]_vars

\* ------------------------------------------------------ shared vocabulary
FetchOk == resp.kind = "ok"
FetchFailed == resp.kind \in TransportFailures \cup {"invalid_json"}
Terminal == pc \in {"done", "raised"}
SuccessRender == pc = "done" /\ FetchOk

NetworkMessages ==
    {"Error al llamar a la API: " \o e :
        e \in {"ConnectionError", "Timeout", "HTTPError", "JSONDecodeError"}}
PayloadMessage == "La API devolvio un JSON invalido."

\* The input records of the request, in document order.
InputRecords ==
    LET p == resp.payload
    IN  IF p.shape = "map" /\ p.data = "map"
        THEN [i \in 1..Len(p.items) |-> EntryOf(Key(i), p.items[i])]
        ELSE <<>>

Occurrences(seq, x) == Cardinality({i \in 1..Len(seq) : seq[i] = x})
Range(seq) == {seq[i] : i \in 1..Len(seq)}
IsPermutation(a, b) ==
    /\ Len(a) = Len(b)
    /\ \A x \in Range(a) \cup Range(b) : Occurrences(a, x) = Occurrences(b, x)

\* The datetime a well-formed timestamp denotes: the fraction padded or cut
\* to six digits, the zone kept (Z is +00:00).
Meaning(w) ==
    DateTime(HeadDate(w.head), HeadSec(w.head),
             Micro(w.frac, 1, Len(w.frac)),
             w.zone # "none",
             IF w.zone = "+05:30" THEN 330 ELSE 0)

\* The parsed timestamp of a display item.
ItemDt(it) == _parse_iso(it.title.kind # "str", it.title.s, lenient)

\* --------------------------------------------------------------------- C1
\* C1: a request that ends in a failure class (no URL; connection error,
\* timeout or non-2xx status; a body that is no JSON) never lets an exception
\* escape, and ends with exactly one render of the zeroed context with a
\* non-empty error message.
C1_FailureRendersZeroes ==
    (StrippedUrl = "" \/ FetchFailed) =>
        /\ pc \in {"start", "except", "done"}
        /\ (pc = "except" => IsRequestException(exc) \/ IsValueError(exc))
        /\ renders = (IF pc = "done" THEN 1 ELSE 0)
        /\ pc = "done" =>
              /\ exc = "none"
              /\ context.error_message \notin {None, ""}
              /\ context = ErrorContext(context.error_message)

C1_Witness ==
    /\ pc = "done" /\ resp.kind = "timeout" /\ renders = 1
    /\ context.posts_count = 0 /\ context.error_message \in NetworkMessages

\* --------------------------------------------------------------------- C2
\* C2: after a fetch that succeeded and parsed, normalisation and aggregation
\* never raise, whatever the payload: no exception leaves index_view.
C2_NeverRaises == FetchOk => (pc # "raised" /\ exc = "none")

\* --------------------------------------------------------------------- C3
\* C3: on a successful request post_items has at most 20 entries, is a prefix
\* of the sorted record list, and posts_count is the number of input records.
C3_DisplayBounded ==
    SuccessRender =>
        /\ Len(context.post_items) <= 20
        /\ context.post_items
             = SubSeq(PostItems(entries), 1, Len(context.post_items))
        /\ context.posts_count = Len(InputRecords)

\* --------------------------------------------------------------------- C4
\* The bucket the claim gives a record: the calendar date its timestamp
\* denotes, "sin_fecha" without a timestamp, the parsed date otherwise.
ClaimedBucket(e) ==
    IF e.ts.kind = "str" /\ e.ts.s # <<>>
    THEN IF \E w \in WellFormedStamps : RenderTs(w) = e.ts.s
         THEN HeadDate((CHOOSE w \in WellFormedStamps : RenderTs(w) = e.ts.s).head)
         ELSE Dt(e).date
    ELSE "sin_fecha"

RECURSIVE SumSeq(_)
SumSeq(q) == IF q = <<>> THEN 0 ELSE Head(q) + SumSeq(Tail(q))

\* C4: every successful request renders the histogram of the records per
\* bucket: labels are the non-empty buckets ascending, values their counts,
\* summing to posts_count; the records a, b, a of the example give
\* posts_count 3, users_count 2, three labels and values 1, 1, 1.
C4_Histogram ==
    /\ SuccessRender =>
          LET recs == InputRecords
              labels == context.graph_labels
              values == context.graph_values
          IN  /\ Range(labels) = {ClaimedBucket(recs[i]) : i \in 1..Len(recs)}
              /\ \A i, j \in 1..Len(labels) :
                    i < j => LabelKey(labels[i]) < LabelKey(labels[j])
              /\ Len(values) = Len(labels)
              /\ \A i \in 1..Len(labels) :
                    values[i] = Cardinality({k \in 1..Len(recs) :
                                               ClaimedBucket(recs[k]) = labels[i]})
              /\ SumSeq(values) = context.posts_count
    /\ (Terminal /\ FetchOk /\ resp.payload = ExamplePayload) =>
          /\ pc = "done"
          /\ context.posts_count = 3
          /\ context.users_count = 2
          /\ context.graph_labels = <<"2024-01-01", "2024-01-02", "sin_fecha">>
          /\ context.graph_values = <<1, 1, 1>>

\* --------------------------------------------------------------------- C5
\* C5: a 2xx body that is no JSON always gives the payload message and never
\* the network message; a transport failure always gives the network message
\* and never the payload message.
C5_ClassifiedByCause ==
    pc = "done" =>
        /\ resp.kind = "invalid_json" => context.error_message = PayloadMessage
        /\ resp.kind \in TransportFailures =>
              context.error_message \in NetworkMessages

\* --------------------------------------------------------------------- C6
C6_State ==
    /\ gets <= 1
    /\ StrippedUrl = "" => gets = 0
    /\ (StrippedUrl # "" /\ pc # "start" /\ pc # "get") => gets = 1
    /\ pc \in {"normalize", "sort", "aggregate"} => (gets = 1 /\ FetchOk)
    /\ (FetchOk /\ Terminal) => gets = 1

C6_Step ==
    /\ gets' # gets => (pc = "get" /\ gets = 0)
    /\ (pc = "except" /\ pc' # pc) =>
          (pc' = "done" /\ renders' = 1 /\ gets' = gets
             /\ context' = ErrorContext(context'.error_message))
    /\ (pc' \in {"normalize", "sort", "aggregate"} /\ pc' # pc) => FetchOk'

\* C6: at most one GET per request: none without a URL, exactly one otherwise;
\* a failed GET is followed by the zeroed render with no further GET, and the
\* aggregation steps run only after a GET that succeeded and parsed.
C6_OneGet == [](C6_State) /\ [][C6_Step]_vars

C6_Witness ==
    /\ pc = "done" /\ gets = 1 /\ resp.kind = "connection_error"
    /\ renders = 1 /\ entries = <<>>

\* --------------------------------------------------------------------- C7
\* The payload is a mapping of records whose timestamps are strings or missing.
RecordsWithTimestamps ==
    /\ resp.payload.shape = "map" /\ resp.payload.data = "map"
    /\ \A i \in 1..Len(resp.payload.items) :
          /\ resp.payload.items[i].vkind = "map"
          /\ resp.payload.items[i].ts.kind \in {"absent", "str"}

\* C7: on a successful request post_items is a permutation of the input
\* records in descending order of parsed timestamp, and every record parsed
\* to the sentinel comes after every record with a parseable timestamp.
C7_SortedDescending ==
    (FetchOk /\ Terminal /\ RecordsWithTimestamps) =>
        /\ pc = "done"
        /\ IsPermutation(context.post_items, PostItems(InputRecords))
        /\ \A i \in 1..(Len(context.post_items) - 1) :
              ~DtGreater(ItemDt(context.post_items[i + 1]),
                         ItemDt(context.post_items[i]))
        /\ \A i, j \in 1..Len(context.post_items) :
              (ItemDt(context.post_items[i]) = datetime_min
                 /\ ItemDt(context.post_items[j]) # datetime_min) => j < i

\* --------------------------------------------------------------------- C8
\* C8: every render context, on the success path and on each error path, has
\* as many labels as values, strictly ascending labels, users_count at most
\* posts_count, a zero average when posts_count is zero, and with no record
\* all three metrics zero and both histogram sequences empty.
C8_ContextInvariants ==
    renders >= 1 =>
        /\ Len(context.graph_labels) = Len(context.graph_values)
        /\ \A i, j \in 1..Len(context.graph_labels) :
              i < j => LabelKey(context.graph_labels[i])
                         < LabelKey(context.graph_labels[j])
        /\ context.users_count <= context.posts_count
        /\ context.posts_count = 0 => context.average_title_length = 0
        /\ (FetchOk => context.posts_count = Len(InputRecords))
        /\ (context.post_items = <<>>) =>
              /\ context.posts_count = 0
              /\ context.users_count = 0
              /\ context.average_title_length = 0
              /\ context.graph_labels = <<>>
              /\ context.graph_values = <<>>

C8_Witness ==
    /\ SuccessRender
    /\ Len(context.graph_labels) = 2
    /\ context.users_count < context.posts_count
    /\ context.average_title_length > 0

\* --------------------------------------------------------------------- C9
\* C9: with 'data' a mapping keyed by record id, the identifier of every
\* normalised record is the key of its entry, also when the nested record has
\* an 'id' of its own, so users_count is the number of distinct keys.
C9_IdIsKey ==
    /\ pc = "sort" => \A i \in 1..Len(entries) : entries[i].id = Key(i)
    /\ SuccessRender => context.users_count = Len(resp.payload.items)

\* -------------------------------------------------------------------- C10
\* C10: for every well-formed timestamp, whatever the width of its fraction
\* and with or without Z or an offset, _parse_iso returns the datetime it
\* denotes (fraction padded or cut to six digits, offset kept, Z as +00:00);
\* it returns the sentinel only for empty or unparseable input.
C10_ParsesBothForms ==
    pc \in {"aggregate", "done", "raised"} =>
        \A i \in 1..Len(entries) :
            entries[i].ts.kind = "str" =>
                /\ \A w \in WellFormedStamps :
                      RenderTs(w) = entries[i].ts.s => Dt(entries[i]) = Meaning(w)
                /\ Dt(entries[i]) = datetime_min =>
                      entries[i].ts.s \in MalformedStrings

====
